---- MODULE Spec2Model ----
(***************************************************************************)
(* A model of the retrieval core of the regulatory document search system: *)
(*   src/src/embeddings_manager.py  (chunking, embedding cache, search)     *)
(*   src/src/search_engine.py       (grouping, filtering, ranking)          *)
(*   src/src/document_processor.py  (ingestion into the catalog)            *)
(*                                                                         *)
(* Texts are sequences of characters.  The specifications:                 *)
(*   SpecChunk   runs the loop of EmbeddingsManager.chunk_text one          *)
(*               iteration at a time, for every text and configuration;     *)
(*   Spec        runs the handlers of the system (the upload of a file, a   *)
(*               search) as atomic operations, one request at a time;       *)
(*   SpecFilter  the same handlers, with uploads on several days and by     *)
(*               several regulators and searches with every filter;         *)
(*   SpecFault   the same handlers when the embedding model fails, a record *)
(*               file is cut short or a catalog record is removed;          *)
(*   SpecStats   uploads and get_system_stats.                              *)
(*   SpecFixed   uploads and searches under one embedding configuration;    *)
(*   SpecRace    two concurrent calls of process_document_embeddings for    *)
(*               one document id and a search, one statement at a time.     *)
(***************************************************************************)
EXTENDS Integers, Sequences, FiniteSets, TLC

(* ----------------------------- bounds ---------------------------------- *)

\* longest text fed to chunk_text in SpecChunk
MaxTextLen == 6
\* largest embeddings.chunk_size tried in SpecChunk
MaxChunkSize == 3
\* largest embeddings.chunk_overlap tried in SpecChunk (may exceed chunk_size)
MaxOverlap == 3
\* iterations of the chunk_text loop followed before the model stops watching
\* a run; a terminating run over a text of n characters makes at most n
MaxChunks == MaxTextLen + 2

Alphabet == {"a", "b"}

RECURSIVE SeqsOfLen(_)
SeqsOfLen(n) ==
    IF n = 0 THEN {<<>>}
    ELSE {Append(s, c) : s \in SeqsOfLen(n - 1), c \in Alphabet}

SeqsUpTo(n) == UNION {SeqsOfLen(k) : k \in 0..n}

ChunkTexts == SeqsUpTo(MaxTextLen)

(* --------------------------- state ------------------------------------- *)

VARIABLES
    \* the run of chunk_text followed by SpecChunk
    text,           \* the argument `text`
    chunk_size,     \* self.chunk_size
    chunk_overlap,  \* self.chunk_overlap
    start,          \* local `start`
    chunks,         \* local `chunks`
    pc              \* "loop": at the while test; "done": returned; "idle"

chunkVars == <<text, chunk_size, chunk_overlap, start, chunks, pc>>

(* ------------------------ chunk_text ----------------------------------- *)

Min(a, b) == IF a < b THEN a ELSE b
Max(a, b) == IF a > b THEN a ELSE b

\* Python's s[a:b]: a negative index counts from the end, and both indices
\* are clipped to 0..len(s).
PyIndex(n, i) == IF i < 0 THEN Max(i + n, 0) ELSE Min(i, n)

PySlice(s, a, b) ==
    LET lo == PyIndex(Len(s), a)
        hi == PyIndex(Len(s), b)
    IN  IF lo < hi THEN SubSeq(s, lo + 1, hi) ELSE <<>>

\* an iteration that advances by chunk_size, forgetting the overlap
ChunkIter_NoOverlap(t, size, overlap, s, cs) ==
    LET end == s + size
        chunk == PySlice(t, s, end)
    IN  IF end >= Len(t)
        THEN [start |-> s, chunks |-> Append(cs, chunk), done |-> TRUE]
        ELSE [start |-> s + size, chunks |-> Append(cs, chunk), done |-> FALSE]

\* an iteration that breaks only once the chunk end is past the text
ChunkIter_BreakLate(t, size, overlap, s, cs) ==
    LET end == s + size
        chunk == PySlice(t, s, end)
    IN  IF end > Len(t)
        THEN [start |-> s, chunks |-> Append(cs, chunk), done |-> TRUE]
        ELSE [start |-> s + size - overlap, chunks |-> Append(cs, chunk),
              done |-> FALSE]

\* an iteration that breaks only when the next start is past the text, and so
\* goes round again after the chunk that reached the end of the text
ChunkIter_NoBreak(t, size, overlap, s, cs) ==
    LET end == s + size
        chunk == PySlice(t, s, end)
    IN  IF s + size - overlap >= Len(t)
        THEN [start |-> s, chunks |-> Append(cs, chunk), done |-> TRUE]
        ELSE [start |-> s + size - overlap, chunks |-> Append(cs, chunk),
              done |-> FALSE]

\* One iteration of the while loop of chunk_text, entered with start < len(text):
\* the chunk is appended, then the loop breaks or start advances.
ChunkIter(t, size, overlap, s, cs) ==
    LET end == s + size
        chunk == PySlice(t, s, end)
    IN  IF end >= Len(t)
        THEN [start |-> s, chunks |-> Append(cs, chunk), done |-> TRUE]
        ELSE [start |-> s + size - overlap, chunks |-> Append(cs, chunk),
              done |-> FALSE]

\* chunk_text as a function, for configurations with overlap < size.
RECURSIVE ChunkLoop(_, _, _, _, _)
ChunkLoop(t, size, overlap, s, cs) ==
    IF ~(s < Len(t)) THEN cs
    ELSE LET it == ChunkIter(t, size, overlap, s, cs)
         IN  IF it.done THEN it.chunks
             ELSE ChunkLoop(t, size, overlap, it.start, it.chunks)

chunk_text(t, size, overlap) == ChunkLoop(t, size, overlap, 0, <<>>)

(* ------------------- the store, the catalog, inputs -------------------- *)

\* largest search.max_results tried
MaxResults == 2

\* document_processor.py:108 hashes filename + text[:100]; the model keeps the
\* hashed string itself as the id (md5 taken as injective) and scales the
\* prefix down to one character, so that two texts can share an id.
IdPrefixLen == 1

Filenames == {<<"f">>}
\* extracted texts of the uploaded files; <<>> is a failed extraction, and the
\* first two share their first character and so their id
DocTexts == {<<>>, <<"a", "b">>, <<"a", "a", "b">>, <<"b", "a">>}
Queries == {<<"a">>, <<"b", "a">>}
Models == {"m1", "m2"}
\* the embeddings section of config.yaml, with 0 <= chunk_overlap < chunk_size
EmbedConfigs ==
    { [chunk_size |-> 1, chunk_overlap |-> 0, model |-> "m1"],
      [chunk_size |-> 2, chunk_overlap |-> 1, model |-> "m2"] }
\* search.similarity_threshold, in hundredths
Thresholds == {0, 71}
\* datetime.now(): <<day, time of day>>
Nows == {<<1, 1>>}

NullValue == "<None>"

\* the record analyze_with_claude returns when the analyzer fails
DefaultAnalysis == [document_type |-> "unknown", regulator |-> "unknown"]

\* a key that a JSON object does not have
Missing == "<missing>"

\* What the analyzer call does: it raises, it replies with text that is not
\* JSON, or it replies with a JSON object, whose keys may be missing or null.
AnalyzerRaises == [kind |-> "error", value |-> [document_type |-> Missing, regulator |-> Missing]]
ReplyNotJson == [kind |-> "text", value |-> [document_type |-> Missing, regulator |-> Missing]]
JsonReply(document_type, regulator) ==
    [kind |-> "json", value |-> [document_type |-> document_type, regulator |-> regulator]]

\* analyze_with_claude: json.loads of the reply is returned as it is; an
\* exception of the call or of json.loads gives the default record
analyze_with_claude(outcome) ==
    IF outcome.kind = "json" THEN outcome.value ELSE DefaultAnalysis

AnalyzerOutcomes ==
    { JsonReply("Guidance", "FDA"), AnalyzerRaises, ReplyNotJson,
      JsonReply("guidance", NullValue) }

\* the analysis records of the uploads of Spec
Analyses == {analyze_with_claude(o) : o \in AnalyzerOutcomes}

\* str.lower() on the strings of the model
Lower(s) ==
    CASE s = "FDA" -> "fda"
      [] s = "OSHA" -> "osha"
      [] s = "Guidance" -> "guidance"
      [] s = "All" -> "all"
      [] OTHER -> s

NoFilter == "<absent>"

\* the filters dict built by the search page: a key is absent or has a value
FilterSets ==
    { [regulator |-> NoFilter, document_type |-> NoFilter, date_from |-> 0, date_to |-> 0],
      [regulator |-> "fda", document_type |-> "All", date_from |-> 0, date_to |-> 0],
      [regulator |-> NoFilter, document_type |-> "guidance", date_from |-> 2, date_to |-> 0],
      [regulator |-> NoFilter, document_type |-> NoFilter, date_from |-> 0, date_to |-> 1] }

VARIABLES
    catalog,        \* data/processed/<id>.json: id -> serialized document
    store,          \* data/embeddings/<id>_embeddings.pkl: id -> serialized record
    embeddings_dir, \* os.listdir(data/embeddings): the ids in listing order
    returned,       \* id -> the record process_document_embeddings last returned
    call            \* the last handler call: its inputs, effects and result

sysVars == <<catalog, store, embeddings_dir, returned, call>>

vars == <<chunkVars, sysVars>>

(* ------------------------- serialization ------------------------------- *)

\* pickle.dump / pickle.load of an embedding record
PickleDump(rec) ==
    <<"pkl", rec.document_id, rec.chunks, rec.embeddings, rec.num_chunks,
      rec.embedding_model>>

PickleLoad(b) ==
    [document_id |-> b[2], chunks |-> b[3], embeddings |-> b[4],
     num_chunks |-> b[5], embedding_model |-> b[6]]

\* a record file cut short by a write that did not finish, and the test
\* pickle.load makes: it raises unless the file holds a whole pickle
Truncated == <<"pkl">>
Loadable(b) == Len(b) = Len(PickleDump([document_id |-> <<>>, chunks |-> <<>>,
                   embeddings |-> <<>>, num_chunks |-> 0, embedding_model |-> ""]))

\* datetime.isoformat() / datetime.fromisoformat(...).date()
IsoFormat(now) == <<"iso", now[1], now[2]>>
IsoDate(s) == s[2]

\* json.dump / json.load of a document record
JsonDump(doc) ==
    <<"json", doc.id, doc.filename, doc.upload_date, doc.text, doc.analysis,
      doc.text_length>>

JsonLoad(b) ==
    [id |-> b[2], filename |-> b[3], upload_date |-> b[4], text |-> b[5],
     analysis |-> b[6], text_length |-> b[7]]

\* a catalog file cut short by a write that did not finish, and the test
\* json.load makes: it raises unless the file holds a whole document
TruncatedJson == <<"json">>
JsonLoadable(b) == b # TruncatedJson

(* --------------------------- embeddings -------------------------------- *)

CharCode(c) == IF c = "a" THEN 1 ELSE 2

RECURSIVE TextSum(_, _)
TextSum(s, i) == IF i > Len(s) THEN 0 ELSE CharCode(s[i]) * i + TextSum(s, i + 1)

\* the dimension of the vectors a model produces
ModelDim(model) == IF model = "m3" THEN 3 ELSE 2

\* The sentence-transformer model: a deterministic map from a text to a
\* vector.  Vectors are unit vectors in the plane of the first two axes at
\* multiples of 45 degrees; a vector of dimension d at the multiple a is
\* written 8 * (d - 2) + a.  Different models give different vectors.
Encode(model, s) ==
    ((TextSum(s, 1) + (IF model = "m1" THEN 0 ELSE 1)) % 8) + 8 * (ModelDim(model) - 2)

\* the shape of a vector
Dim(v) == 2 + (v \div 8)

\* generate_embeddings: one vector per text, in order
generate_embeddings(model, texts) ==
    [i \in 1..Len(texts) |-> Encode(model, texts[i])]

\* cosine_similarity of two unit vectors, in hundredths: cos(45 deg * (u - v))
CosSim(u, v) == <<100, 71, 0, -71, -100, -71, 0, 71>>[((u - v) % 8) + 1]

(* ------------------------- search_similar_chunks ----------------------- *)

\* The position list.sort(key=..., reverse=True) gives element i: Python's
\* sort is stable, so equal keys keep their order.
SortRank(keys, i) ==
    1 + Cardinality({j \in 1..Len(keys) :
                        keys[j] > keys[i] \/ (keys[j] = keys[i] /\ j < i)})

SortDesc(seq, keys) ==
    [r \in 1..Len(seq) |-> seq[CHOOSE i \in 1..Len(seq) : SortRank(keys, i) = r]]

\* s[:n]
Take(s, n) == PySlice(s, 0, n)

\* line 113: if similarity > self.config['search']['similarity_threshold']
AboveThreshold_Inclusive(similarity, threshold) == similarity >= threshold

AboveThreshold(similarity, threshold) == similarity > threshold

\* lines 112-119: the entries of one record above the threshold, by chunk index
RECURSIVE RecordMatches(_, _, _, _, _)
RecordMatches(doc_id, data, q, threshold, i) ==
    IF i > Len(data.embeddings) THEN <<>>
    ELSE LET similarity == CosSim(q, data.embeddings[i])
         IN  (IF AboveThreshold(similarity, threshold)
              THEN << [document_id |-> doc_id, chunk_index |-> i - 1,
                       chunk_text |-> data.chunks[i], similarity |-> similarity] >>
              ELSE <<>>)
             \o RecordMatches(doc_id, data, q, threshold, i + 1)

\* lines 102-109 inside the try: pickle.load raises on a file that is not a
\* whole pickle, cosine_similarity raises when the stored vectors do not have
\* the dimension of the query vector; both before any entry is appended
RecordFails(b, q) ==
    \/ ~Loadable(b)
    \/ \E i \in 1..Len(PickleLoad(b).embeddings) : Dim(PickleLoad(b).embeddings[i]) # Dim(q)

\* a loop that stops at the first record that fails
RECURSIVE AllRecordMatches_Break(_, _, _, _, _)
AllRecordMatches_Break(st, dir, q, threshold, k) ==
    IF k > Len(dir) \/ RecordFails(st[dir[k]], q) THEN <<>>
    ELSE RecordMatches(dir[k], PickleLoad(st[dir[k]]), q, threshold, 1)
         \o AllRecordMatches_Break(st, dir, q, threshold, k + 1)

\* lines 94-123: the loop over os.listdir(self.embeddings_path); a record
\* that raises inside the try is reported and skipped (lines 121-123)
RECURSIVE AllRecordMatches(_, _, _, _, _)
AllRecordMatches(st, dir, q, threshold, k) ==
    IF k > Len(dir) THEN <<>>
    ELSE (IF RecordFails(st[dir[k]], q) THEN <<>>
          ELSE RecordMatches(dir[k], PickleLoad(st[dir[k]]), q, threshold, 1))
         \o AllRecordMatches(st, dir, q, threshold, k + 1)

\* a version that cuts the merged list to top_k before sorting it
search_similar_chunks_CutFirst(st, dir, query, top_k, model, threshold) ==
    LET query_embedding == generate_embeddings(model, <<query>>)[1]
        results == Take(AllRecordMatches(st, dir, query_embedding, threshold, 1), top_k)
    IN  SortDesc(results, [i \in 1..Len(results) |-> results[i].similarity])

\* a version that leaves the merged list in the order it was read
search_similar_chunks_NoSort(st, dir, query, top_k, model, threshold) ==
    LET query_embedding == generate_embeddings(model, <<query>>)[1]
    IN  Take(AllRecordMatches(st, dir, query_embedding, threshold, 1), top_k)

search_similar_chunks(st, dir, query, top_k, model, threshold) ==
    LET query_embedding == generate_embeddings(model, <<query>>)[1]
        results == AllRecordMatches(st, dir, query_embedding, threshold, 1)
        sorted == SortDesc(results, [i \in 1..Len(results) |-> results[i].similarity])
    IN  Take(sorted, top_k)

(* ---------------------------- search_documents ------------------------- *)

\* a version that makes up a record for an id the catalog does not have
load_document_metadata_Stub(cat, doc_id) ==
    IF doc_id \notin DOMAIN cat \/ ~JsonLoadable(cat[doc_id])
    THEN << [id |-> doc_id, filename |-> <<>>, upload_date |-> <<"iso", 1, 1>>,
             text |-> <<>>, analysis |-> DefaultAnalysis, text_length |-> 0] >>
    ELSE <<JsonLoad(cat[doc_id])>>

\* load_document_metadata: <<>> is None, <<doc>> the loaded record; None when
\* the file is absent (lines 22-23) and when json.load raises (lines 28-30)
load_document_metadata(cat, doc_id) ==
    IF doc_id \notin DOMAIN cat \/ ~JsonLoadable(cat[doc_id]) THEN <<>>
    ELSE <<JsonLoad(cat[doc_id])>>

\* the index of doc_id in document_results (a dict, kept in insertion order)
ResultIndex(document_results, doc_id) ==
    IF \E i \in 1..Len(document_results) : document_results[i].doc_id = doc_id
    THEN CHOOSE i \in 1..Len(document_results) : document_results[i].doc_id = doc_id
    ELSE 0

\* lines 58-59: best_similarity after one more chunk of the document
RaiseBest_Overwrite(best_similarity, similarity) == similarity

RaiseBest(best_similarity, similarity) ==
    IF similarity > best_similarity THEN similarity ELSE best_similarity

\* lines 56-57: one more chunk of a document already in document_results
AddMatch_CountOnly(r, chunk) ==
    [r EXCEPT !.total_matches = r.total_matches + 1]

AddMatch(r, chunk) ==
    [r EXCEPT !.matching_chunks = Append(r.matching_chunks, chunk),
              !.total_matches = r.total_matches + 1]

\* lines 43-59: the body of the loop over similar_chunks
GroupChunk(cat, document_results, chunk) ==
    LET doc_id == chunk.document_id
        i == ResultIndex(document_results, doc_id)
    IN  IF i = 0
        THEN LET metadata == load_document_metadata(cat, doc_id)
             IN  IF metadata # <<>>
                 THEN Append(document_results,
                             [doc_id |-> doc_id,
                              document |-> metadata[1],
                              best_similarity |-> chunk.similarity,
                              matching_chunks |-> <<chunk>>,
                              total_matches |-> 1])
                 ELSE document_results
        ELSE LET r == AddMatch(document_results[i], chunk)
             IN  [document_results EXCEPT ![i] =
                    [r EXCEPT !.best_similarity =
                                  RaiseBest(r.best_similarity, chunk.similarity)]]

\* a loop that stops at the first chunk whose document has no metadata
RECURSIVE GroupChunks_Break(_, _, _, _)
GroupChunks_Break(cat, similar_chunks, k, document_results) ==
    IF k > Len(similar_chunks) THEN document_results
    ELSE IF load_document_metadata(cat, similar_chunks[k].document_id) = <<>>
    THEN document_results
    ELSE GroupChunks_Break(cat, similar_chunks, k + 1,
                           GroupChunk(cat, document_results, similar_chunks[k]))

RECURSIVE GroupChunks(_, _, _, _)
GroupChunks(cat, similar_chunks, k, document_results) ==
    IF k > Len(similar_chunks) THEN document_results
    ELSE GroupChunks(cat, similar_chunks, k + 1,
                     GroupChunk(cat, document_results, similar_chunks[k]))

\* `if filters:` an empty dict is falsy
FiltersGiven(filters) ==
    \/ filters.regulator # NoFilter
    \/ filters.document_type # NoFilter
    \/ filters.date_from # 0
    \/ filters.date_to # 0

\* lines 80-82 and 85-87 subscript the analysis and call .lower() on the
\* value: a missing key raises KeyError, None has no .lower()
FilterRaises(document, filters) ==
    \/ /\ filters.regulator # NoFilter /\ filters.regulator # "All"
       /\ document.analysis.regulator \in {NullValue, Missing}
    \/ /\ filters.document_type # NoFilter /\ filters.document_type # "All"
       /\ document.analysis.document_type \in {NullValue, Missing}

\* a date test that also drops a document dated on a bound
DateExcluded_Strict(doc_date, filters) ==
    \/ filters.date_from # 0 /\ doc_date <= filters.date_from
    \/ filters.date_to # 0 /\ doc_date >= filters.date_to

\* lines 95-98: the two date tests, each made only if its bound is given
DateExcluded(doc_date, filters) ==
    \/ filters.date_from # 0 /\ doc_date < filters.date_from
    \/ filters.date_to # 0 /\ doc_date > filters.date_to

\* lines 76-100: the value of `include` for one result
FilterIncludes(document, filters) ==
    /\ ~ (/\ filters.regulator # NoFilter /\ filters.regulator # "All"
          /\ Lower(document.analysis.regulator) # Lower(filters.regulator))
    /\ ~ (/\ filters.document_type # NoFilter /\ filters.document_type # "All"
          /\ Lower(document.analysis.document_type) # Lower(filters.document_type))
    /\ ~ (/\ filters.date_from # 0 \/ filters.date_to # 0
          /\ DateExcluded(IsoDate(document.upload_date), filters))

\* _apply_filters: the results kept, in order
_apply_filters(results, filters) ==
    SelectSeq(results, LAMBDA r : FilterIncludes(r.document, filters))

\* line 69: results[:self.config['search']['max_results']]
CutToMaxResults_Off(results, max_results) == results

CutToMaxResults(results, max_results) == Take(results, max_results)

\* search_documents: [raised, similar_chunks, results]
search_documents(cat, st, dir, query, filters, model, max_results, threshold) ==
    LET similar_chunks ==
            search_similar_chunks(st, dir, query, max_results * 3, model, threshold)
        document_results == GroupChunks(cat, similar_chunks, 1, <<>>)
        raised ==
            /\ FiltersGiven(filters)
            /\ \E i \in 1..Len(document_results) :
                  FilterRaises(document_results[i].document, filters)
        filtered ==
            IF FiltersGiven(filters) THEN _apply_filters(document_results, filters)
            ELSE document_results
        results ==
            SortDesc(filtered, [i \in 1..Len(filtered) |-> filtered[i].best_similarity])
    IN  [raised |-> raised,
         similar_chunks |-> similar_chunks,
         results |-> IF raised THEN <<>> ELSE CutToMaxResults(results, max_results)]

\* a search that turns a failure of the embedding model into no matches
SearchOutcome_Swallow(cat, st, dir, query, filters, model, max_results, threshold, model_ok) ==
    IF ~model_ok THEN [raised |-> FALSE, similar_chunks |-> <<>>, results |-> <<>>]
    ELSE search_documents(cat, st, dir, query, filters, model, max_results, threshold)

\* A call of search_documents with the embedding model answering or not:
\* generate_embeddings([query]) (embeddings_manager.py line 89) is outside the
\* try of search_similar_chunks, and search_documents (line 35) has no try, so
\* its exception leaves both functions; no list is returned.
SearchOutcome(cat, st, dir, query, filters, model, max_results, threshold, model_ok) ==
    IF ~model_ok THEN [raised |-> TRUE, similar_chunks |-> <<>>, results |-> <<>>]
    ELSE search_documents(cat, st, dir, query, filters, model, max_results, threshold)

(* ------------------------------ ingestion ------------------------------ *)

\* process_document lines 107-123: the id and the document record
DocId(filename, t) == filename \o PySlice(t, 0, IdPrefixLen)

DocumentData(filename, t, analysis, now) ==
    [id |-> DocId(filename, t), filename |-> filename,
     upload_date |-> IsoFormat(now), text |-> t, analysis |-> analysis,
     text_length |-> Len(t)]

\* f with key k set to v (a file written or overwritten)
Put(f, k, v) == [x \in DOMAIN f \cup {k} |-> IF x = k THEN v ELSE f[x]]

\* a version that returns the record without saving it
process_document_SkipWrite(cat, filename, t, analysis, now) ==
    IF t = <<>>
    THEN [ret |-> <<>>, catalog |-> cat]
    ELSE [ret |-> <<DocumentData(filename, t, analysis, now)>>, catalog |-> cat]

\* a version that keeps the record an id already has
process_document_KeepFirst(cat, filename, t, analysis, now) ==
    IF t = <<>>
    THEN [ret |-> <<>>, catalog |-> cat]
    ELSE LET document_data == DocumentData(filename, t, analysis, now)
         IN  [ret |-> <<document_data>>,
              catalog |-> IF document_data.id \in DOMAIN cat THEN cat
                          ELSE Put(cat, document_data.id, JsonDump(document_data))]

\* process_document: [ret, catalog]; ret is <<>> for None, <<document_data>>
process_document(cat, filename, t, analysis, now) ==
    IF t = <<>>
    THEN [ret |-> <<>>, catalog |-> cat]
    ELSE LET document_data == DocumentData(filename, t, analysis, now)
         IN  [ret |-> <<document_data>>,
              catalog |-> Put(cat, document_data.id, JsonDump(document_data))]

\* line 61: os.path.exists(embeddings_file)
CacheExists_Never(st, doc_id) == FALSE

CacheExists(st, doc_id) == doc_id \in DOMAIN st

\* a record whose vectors are in the reverse order of its chunks
NewEmbeddingsData_Misaligned(document_data, size, overlap, model) ==
    LET cs == chunk_text(document_data.text, size, overlap)
    IN  [document_id |-> document_data.id,
         chunks |-> cs,
         embeddings |-> [i \in 1..Len(cs) |-> Encode(model, cs[Len(cs) + 1 - i])],
         num_chunks |-> Len(cs),
         embedding_model |-> model]

\* lines 65-78: the record built on a cache miss
NewEmbeddingsData(document_data, size, overlap, model) ==
    LET cs == chunk_text(document_data.text, size, overlap)
    IN  [document_id |-> document_data.id,
         chunks |-> cs,
         embeddings |-> generate_embeddings(model, cs),
         num_chunks |-> Len(cs),
         embedding_model |-> model]

\* a version that recomputes a cached record made by another model
process_document_embeddings_Refresh(st, document_data, size, overlap, model, model_ok) ==
    LET doc_id == document_data.id
        embeddings_data == NewEmbeddingsData(document_data, size, overlap, model)
    IN  IF CacheExists(st, doc_id) /\ PickleLoad(st[doc_id]).embedding_model = model
        THEN [raised |-> FALSE, ret |-> <<PickleLoad(st[doc_id])>>, store |-> st,
              hit |-> TRUE, chunked |-> FALSE, encoded |-> FALSE, wrote |-> FALSE]
        ELSE IF ~model_ok
        THEN [raised |-> TRUE, ret |-> <<>>, store |-> st,
              hit |-> FALSE, chunked |-> TRUE, encoded |-> TRUE, wrote |-> FALSE]
        ELSE [raised |-> FALSE, ret |-> <<embeddings_data>>,
              store |-> Put(st, doc_id, PickleDump(embeddings_data)),
              hit |-> FALSE, chunked |-> TRUE, encoded |-> TRUE, wrote |-> TRUE]

\* process_document_embeddings.  model_ok: whether the embedding model answers.
\* pickle.load of a cached file that is not a whole pickle raises (line 63).
\* The result is [raised, ret, store] and what the call did: hit (the cached
\* record was loaded), chunked (chunk_text ran), encoded (the model was
\* invoked), wrote (the record file was written).
process_document_embeddings(st, document_data, size, overlap, model, model_ok) ==
    LET doc_id == document_data.id
        embeddings_data == NewEmbeddingsData(document_data, size, overlap, model)
    IN  IF CacheExists(st, doc_id) /\ ~Loadable(st[doc_id])
        THEN [raised |-> TRUE, ret |-> <<>>, store |-> st,
              hit |-> FALSE, chunked |-> FALSE, encoded |-> FALSE, wrote |-> FALSE]
        ELSE IF CacheExists(st, doc_id)
        THEN [raised |-> FALSE, ret |-> <<PickleLoad(st[doc_id])>>, store |-> st,
              hit |-> TRUE, chunked |-> FALSE, encoded |-> FALSE, wrote |-> FALSE]
        ELSE IF ~model_ok
        THEN [raised |-> TRUE, ret |-> <<>>, store |-> st,
              hit |-> FALSE, chunked |-> TRUE, encoded |-> TRUE, wrote |-> FALSE]
        ELSE [raised |-> FALSE, ret |-> <<embeddings_data>>,
              store |-> Put(st, doc_id, PickleDump(embeddings_data)),
              hit |-> FALSE, chunked |-> TRUE, encoded |-> TRUE, wrote |-> TRUE]

(* --------------------------- get_system_stats -------------------------- *)

\* the order Python gives the strings of the model (by code point: capitals
\* before small letters)
StrRank(v) ==
    CASE v = "All" -> 1
      [] v = "FDA" -> 2
      [] v = "Guidance" -> 3
      [] v = "OSHA" -> 4
      [] v = "fda" -> 5
      [] v = "guidance" -> 6
      [] v = "unknown" -> 7
      [] OTHER -> 0

\* sorted(...) of a set of strings: a list in ascending order
Sorted(values) ==
    [r \in 1..Cardinality(values) |->
        CHOOSE v \in values :
           Cardinality({w \in values : StrRank(w) < StrRank(v)}) = r - 1]

\* datetime comparison of two <<day, time>> values
Later(a, b) == a[1] > b[1] \/ (a[1] = b[1] /\ a[2] > b[2])

\* datetime.fromisoformat(iso string)
FromIsoFormat(iso) == <<iso[2], iso[3]>>

\* lines 170-178 for one loaded record, inside the try: the count is raised
\* first, then each subscript of a missing key raises and the bare except
\* (lines 179-180) goes to the next file with what was done so far kept
StatsRecord(stats, doc) ==
    LET counted == [stats EXCEPT !.total_documents = @ + 1]
        with_regulator ==
            [counted EXCEPT !.regulators = @ \cup {doc.analysis.regulator}]
        with_type ==
            [with_regulator EXCEPT !.document_types = @ \cup {doc.analysis.document_type}]
        upload_date == FromIsoFormat(doc.upload_date)
        with_date ==
            [with_type EXCEPT !.last_update =
                IF @ = <<>> \/ Later(upload_date, @[1]) THEN <<upload_date>> ELSE @]
    IN  IF doc.analysis.regulator = Missing THEN counted
        ELSE IF doc.analysis.document_type = Missing THEN with_regulator
        ELSE with_date

\* lines 165-180: the loop over the files of data/processed
RECURSIVE StatsRecords(_, _, _)
StatsRecords(cat, ids, stats) ==
    IF ids = {} THEN stats
    ELSE LET d == CHOOSE x \in ids : TRUE
         IN  StatsRecords(cat, ids \ {d}, StatsRecord(stats, JsonLoad(cat[d])))

\* lines 183-193: num_chunks of every record file that loads
RECURSIVE TotalChunks(_, _)
TotalChunks(st, ids) ==
    IF ids = {} THEN 0
    ELSE LET d == CHOOSE x \in ids : TRUE
         IN  (IF Loadable(st[d]) THEN PickleLoad(st[d]).num_chunks ELSE 0)
             + TotalChunks(st, ids \ {d})

\* get_system_stats; last_update is <<>> for None
get_system_stats(cat, st) ==
    LET stats == StatsRecords(cat, DOMAIN cat,
                     [total_documents |-> 0, regulators |-> {},
                      document_types |-> {}, last_update |-> <<>>])
    IN  [total_documents |-> stats.total_documents,
         total_chunks |-> TotalChunks(st, DOMAIN st),
         regulators |-> Sorted(stats.regulators \ {NullValue}),
         document_types |-> Sorted(stats.document_types \ {NullValue}),
         last_update |-> stats.last_update]

(* ------------------------- Spec: the handlers -------------------------- *)

NoCall == [op |-> "none"]

InitSys ==
    /\ catalog = <<>>
    /\ store = <<>>
    /\ embeddings_dir = <<>>
    /\ returned = <<>>
    /\ call = NoCall

ChunkIdle ==
    /\ text = <<>>
    /\ chunk_size = 1
    /\ chunk_overlap = 0
    /\ start = 0
    /\ chunks = <<>>
    /\ pc = "idle"

Init == ChunkIdle /\ InitSys

InsertAt(s, pos, x) == SubSeq(s, 1, pos) \o <<x>> \o SubSeq(s, pos + 1, Len(s))

\* The upload page, for one file (1_Upload_Documents.py lines 52-94):
\* process_document, then process_document_embeddings on its result.
Upload(filename, t, analysis, now, ec, model_ok, pos) ==
    LET pd == process_document(catalog, filename, t, analysis, now)
    IN  /\ call = NoCall
        /\ catalog' = pd.catalog
        /\ IF pd.ret = <<>>
           THEN /\ call' = [op |-> "upload", processed |-> FALSE]
                /\ UNCHANGED <<store, embeddings_dir, returned>>
           ELSE LET doc == pd.ret[1]
                    em == process_document_embeddings(store, doc, ec.chunk_size,
                                  ec.chunk_overlap, ec.model, model_ok)
                IN  /\ store' = em.store
                    /\ embeddings_dir' =
                          IF doc.id \in DOMAIN em.store /\ doc.id \notin DOMAIN store
                          THEN InsertAt(embeddings_dir, pos, doc.id)
                          ELSE embeddings_dir
                    /\ returned' = IF em.raised THEN returned
                                   ELSE Put(returned, doc.id, em.ret[1])
                    /\ call' = [op |-> "upload", processed |-> TRUE,
                                doc_id |-> doc.id, text |-> t,
                                config |-> ec,
                                existed |-> doc.id \in DOMAIN store,
                                raised |-> em.raised, ret |-> em.ret,
                                hit |-> em.hit, chunked |-> em.chunked,
                                encoded |-> em.encoded, wrote |-> em.wrote,
                                model_failed |-> em.encoded /\ ~model_ok]
        /\ UNCHANGED chunkVars

\* The search page: search_documents(query, filters).  model_ok: whether the
\* embedding model answers when the query is embedded.
Search(query, filters, model, max_results, threshold, model_ok) ==
    LET r == SearchOutcome(catalog, store, embeddings_dir, query, filters,
                           model, max_results, threshold, model_ok)
    IN  /\ call = NoCall
        /\ call' = [op |-> "search", query |-> query, filters |-> filters,
                    model |-> model, max_results |-> max_results,
                    threshold |-> threshold, top_k |-> max_results * 3,
                    model_ok |-> model_ok,
                    raised |-> r.raised, similar_chunks |-> r.similar_chunks,
                    results |-> r.results]
        /\ UNCHANGED <<catalog, store, embeddings_dir, returned, chunkVars>>

\* The request ends: its results are rendered and discarded.
EndRequest ==
    /\ call # NoCall
    /\ call' = NoCall
    /\ UNCHANGED <<catalog, store, embeddings_dir, returned, chunkVars>>

\* where a new file may appear in the directory listing
ListingPositions(filename, t, model_ok) ==
    IF t # <<>> /\ model_ok /\ DocId(filename, t) \notin DOMAIN store
    THEN 0..Len(embeddings_dir) ELSE {0}

Next ==
    \/ \E filename \in Filenames, t \in DocTexts, analysis \in Analyses,
          now \in Nows, ec \in EmbedConfigs, model_ok \in BOOLEAN :
          \E pos \in ListingPositions(filename, t, model_ok) :
             Upload(filename, t, analysis, now, ec, model_ok, pos)
    \/ \E query \in Queries, filters \in FilterSets, model \in Models,
          max_results \in 1..MaxResults, threshold \in Thresholds :
          Search(query, filters, model, max_results, threshold, TRUE)
    \/ EndRequest

Spec == Init /\ [][Next]_vars

(* ------------- SpecFilter: uploads and filtered searches --------------- *)

\* the analyzer replies, upload times and configuration of the uploads
FilterOutcomes ==
    { JsonReply("Guidance", "FDA"), JsonReply("Guidance", "OSHA"),
      JsonReply("guidance", NullValue) }
FilterNows == {<<1, 1>>, <<2, 0>>, <<3, 1>>}
FilterConfig == [chunk_size |-> 1, chunk_overlap |-> 0, model |-> "m1"]
FilterTexts == {<<"a", "b">>, <<"b", "a">>}

\* the filters dict of the search page (2_Search_Documents.py lines 100-109):
\* the regulator key is absent or holds a regulator, never "All"; each date
\* key is absent or holds a date
RegDateFilters ==
    { [regulator |-> r, document_type |-> NoFilter, date_from |-> f, date_to |-> t] :
        r \in {NoFilter, "fda", "OSHA"}, f \in {0, 2}, t \in {0, 2} }

NextFilter ==
    \/ \E t \in FilterTexts, o \in FilterOutcomes, now \in FilterNows :
          Upload(<<"f">>, t, analyze_with_claude(o), now, FilterConfig, TRUE,
                 Len(embeddings_dir))
    \/ \E filters \in RegDateFilters, max_results \in 1..MaxResults :
          Search(<<"a">>, filters, FilterConfig.model, max_results, 0, TRUE)
    \/ EndRequest

SpecFilter == Init /\ [][NextFilter]_vars

(* -------- SpecFault: failures of the model, the files, the disk -------- *)

\* The upload page stopped (the process killed, the disk full) inside
\* pickle.dump of a new record (embeddings_manager.py lines 81-82): the
\* catalog record is written, the record file exists and is cut short.
UploadInterrupted(filename, t, analysis, now, pos) ==
    LET pd == process_document(catalog, filename, t, analysis, now)
    IN  /\ call = NoCall
        /\ pd.ret # <<>>
        /\ ~CacheExists(store, pd.ret[1].id)
        /\ catalog' = pd.catalog
        /\ store' = Put(store, pd.ret[1].id, Truncated)
        /\ embeddings_dir' = InsertAt(embeddings_dir, pos, pd.ret[1].id)
        /\ call' = [op |-> "killed"]
        /\ UNCHANGED <<returned, chunkVars>>

\* The upload page stopped inside json.dump of the catalog record
\* (document_processor.py lines 126-127): the file exists and is cut short,
\* and process_document_embeddings is not reached.
IngestInterrupted(filename, t, analysis, now) ==
    LET pd == process_document(catalog, filename, t, analysis, now)
    IN  /\ call = NoCall
        /\ pd.ret # <<>>
        /\ catalog' = Put(catalog, pd.ret[1].id, TruncatedJson)
        /\ call' = [op |-> "killed"]
        /\ UNCHANGED <<store, embeddings_dir, returned, chunkVars>>

\* A catalog record is removed from data/processed by hand; the code never
\* deletes one, and load_document_metadata (search_engine.py lines 22-23)
\* answers None for an id whose record is not there.
RemoveDocument(doc_id) ==
    /\ call = NoCall
    /\ doc_id \in DOMAIN catalog
    /\ catalog' = [d \in DOMAIN catalog \ {doc_id} |-> catalog[d]]
    /\ UNCHANGED <<store, embeddings_dir, returned, call, chunkVars>>

\* the files uploaded: three ids
FaultUploads == {<< <<"f">>, <<"a", "b">> >>, << <<"f">>, <<"b", "a">> >>,
                 << <<"g">>, <<"a", "b">> >>}
\* configurations whose models give vectors of different dimensions
FaultConfigs ==
    { [chunk_size |-> 1, chunk_overlap |-> 0, model |-> "m1"],
      [chunk_size |-> 1, chunk_overlap |-> 0, model |-> "m3"] }
FaultFilters ==
    { [regulator |-> NoFilter, document_type |-> NoFilter, date_from |-> 0, date_to |-> 0],
      [regulator |-> "fda", document_type |-> NoFilter, date_from |-> 0, date_to |-> 0] }

NextFault ==
    \/ \E u \in FaultUploads, ec \in FaultConfigs, model_ok \in BOOLEAN :
          Upload(u[1], u[2], analyze_with_claude(JsonReply("Guidance", "FDA")),
                 <<1, 1>>, ec, model_ok, Len(embeddings_dir))
    \/ \E u \in FaultUploads :
          UploadInterrupted(u[1], u[2],
                            analyze_with_claude(JsonReply("Guidance", "FDA")),
                            <<1, 1>>, Len(embeddings_dir))
    \/ \E u \in FaultUploads :
          IngestInterrupted(u[1], u[2],
                            analyze_with_claude(JsonReply("Guidance", "FDA")),
                            <<1, 1>>)
    \/ \E doc_id \in DOMAIN catalog : RemoveDocument(doc_id)
    \/ \E filters \in FaultFilters, ec \in FaultConfigs,
          max_results \in 1..MaxResults, model_ok \in BOOLEAN :
          Search(<<"a">>, filters, ec.model, max_results, 0, model_ok)
    \/ EndRequest

SpecFault == Init /\ [][NextFault]_vars

(* ------------- SpecStats: uploads and the statistics page -------------- *)

\* The pages that show statistics (Home.py, 2_Search_Documents.py,
\* 3_System_Status.py): get_system_stats()
GetStats ==
    /\ call = NoCall
    /\ call' = [op |-> "stats", stats |-> get_system_stats(catalog, store)]
    /\ UNCHANGED <<catalog, store, embeddings_dir, returned, chunkVars>>

\* replies of the analyzer: whole, with a null regulator, without a key
StatsOutcomes ==
    { JsonReply("Guidance", "FDA"), JsonReply("guidance", "OSHA"),
      JsonReply("Guidance", NullValue), JsonReply(Missing, "OSHA"),
      JsonReply("Guidance", Missing) }
StatsNows == {<<1, 1>>, <<2, 0>>}

NextStats ==
    \/ \E u \in FaultUploads, o \in StatsOutcomes, now \in StatsNows :
          Upload(u[1], u[2], analyze_with_claude(o), now, FilterConfig, TRUE,
                 Len(embeddings_dir))
    \/ GetStats
    \/ EndRequest

SpecStats == Init /\ [][NextStats]_vars

(* ------------- SpecFixed: the handlers under one configuration -------- *)

NextFixed ==
    \/ \E filename \in Filenames, t \in DocTexts, analysis \in Analyses,
          now \in Nows, model_ok \in BOOLEAN :
          Upload(filename, t, analysis, now, FilterConfig, model_ok,
                 Len(embeddings_dir))
    \/ \E query \in Queries, filters \in FilterSets,
          max_results \in 1..MaxResults, threshold \in Thresholds :
          Search(query, filters, FilterConfig.model, max_results, threshold, TRUE)
    \/ EndRequest

SpecFixed == Init /\ [][NextFixed]_vars

(* ------ SpecRace: two uploads of one document id, and a search --------- *)

\* Two sessions of the upload page have saved the same document and run
\* process_document_embeddings for it, each statement a step; a search reads
\* the record file in between.  `call` holds the calls in progress: for each
\* caller its configuration, its position in process_document_embeddings
\*   "check"  at line 61, os.path.exists
\*   "load"   at lines 62-63, open 'rb' and pickle.load
\*   "open"   at line 81, open 'wb' (the chunks and vectors are computed)
\*   "dump"   at line 82, pickle.dump and the close of the file
\*   "done"   returned; "failed" left by an exception
\* and what it returned; search_read is what search_similar_chunks found in
\* the file (lines 102-103).
Callers == {1, 2}

InitRace ==
    /\ ChunkIdle
    /\ \E t \in DocTexts \ {<<>>}, ecs \in [Callers -> EmbedConfigs] :
          LET doc == DocumentData(<<"f">>, t, DefaultAnalysis, <<1, 1>>)
          IN  /\ catalog = Put(<<>>, doc.id, JsonDump(doc))
              /\ call = [op |-> "race", doc |-> doc, config |-> ecs,
                          pc |-> [c \in Callers |-> "check"],
                          ret |-> [c \in Callers |-> <<>>],
                          search_read |-> "none"]
    /\ store = <<>>
    /\ embeddings_dir = <<>>
    /\ returned = <<>>

\* line 61: if os.path.exists(embeddings_file)
CheckCache(c) ==
    /\ call.pc[c] = "check"
    /\ call' = [call EXCEPT !.pc[c] =
                   IF CacheExists(store, call.doc.id) THEN "load" ELSE "open"]
    /\ UNCHANGED <<catalog, store, embeddings_dir, returned, chunkVars>>

\* lines 62-63: return pickle.load(f); it raises on a file that is not whole
LoadCache(c) ==
    /\ call.pc[c] = "load"
    /\ call' = IF Loadable(store[call.doc.id])
               THEN [call EXCEPT !.pc[c] = "done",
                                 !.ret[c] = <<PickleLoad(store[call.doc.id])>>]
               ELSE [call EXCEPT !.pc[c] = "failed"]
    /\ UNCHANGED <<catalog, store, embeddings_dir, returned, chunkVars>>

\* line 81: open(embeddings_file, 'wb') creates the file or empties it
OpenForWrite(c) ==
    /\ call.pc[c] = "open"
    /\ store' = Put(store, call.doc.id, Truncated)
    /\ embeddings_dir' = IF call.doc.id \in DOMAIN store THEN embeddings_dir
                         ELSE Append(embeddings_dir, call.doc.id)
    /\ call' = [call EXCEPT !.pc[c] = "dump"]
    /\ UNCHANGED <<catalog, returned, chunkVars>>

\* line 82 and the end of the with block, then line 84: the record is in
\* the file and is returned
DumpRecord(c) ==
    LET embeddings_data ==
            NewEmbeddingsData(call.doc, call.config[c].chunk_size,
                              call.config[c].chunk_overlap, call.config[c].model)
    IN  /\ call.pc[c] = "dump"
        /\ store' = Put(store, call.doc.id, PickleDump(embeddings_data))
        /\ call' = [call EXCEPT !.pc[c] = "done", !.ret[c] = <<embeddings_data>>]
        /\ UNCHANGED <<catalog, embeddings_dir, returned, chunkVars>>

\* search_similar_chunks lines 94-103 and 121-123, for the file of the id:
\* not listed, loaded, or pickle.load raised and the record was skipped
SearchRead ==
    /\ call.search_read = "none"
    /\ call' = [call EXCEPT !.search_read =
                   IF call.doc.id \notin DOMAIN store THEN "absent"
                   ELSE IF Loadable(store[call.doc.id]) THEN "whole"
                   ELSE "partial"]
    /\ UNCHANGED <<catalog, store, embeddings_dir, returned, chunkVars>>

NextRace ==
    \/ \E c \in Callers : CheckCache(c)
    \/ \E c \in Callers : LoadCache(c)
    \/ \E c \in Callers : OpenForWrite(c)
    \/ \E c \in Callers : DumpRecord(c)
    \/ SearchRead

SpecRace == InitRace /\ [][NextRace]_vars

(* --------------------- SpecChunk: the loop, stepwise ------------------- *)

\* the worked example of chunk_text: ten distinct characters
ExampleText == <<"a", "b", "c", "d", "e", "f", "g", "h", "i", "j">>

InitChunk ==
    /\ \/ /\ text \in ChunkTexts
          /\ chunk_size \in 1..MaxChunkSize
          /\ chunk_overlap \in 0..MaxOverlap
       \/ /\ text = ExampleText
          /\ chunk_size = 4
          /\ chunk_overlap = 1
    /\ start = 0
    /\ chunks = <<>>
    /\ pc = "loop"
    /\ InitSys

\* while start < len(text): one iteration
ChunkStep ==
    /\ pc = "loop"
    /\ start < Len(text)
    /\ Len(chunks) < MaxChunks
    /\ LET it == ChunkIter(text, chunk_size, chunk_overlap, start, chunks)
       IN  /\ start' = it.start
           /\ chunks' = it.chunks
           /\ pc' = IF it.done THEN "done" ELSE "loop"
    /\ UNCHANGED <<text, chunk_size, chunk_overlap, sysVars>>

\* the while test fails: return chunks
ChunkExit ==
    /\ pc = "loop"
    /\ ~(start < Len(text))
    /\ pc' = "done"
    /\ UNCHANGED <<text, chunk_size, chunk_overlap, start, chunks, sysVars>>

NextChunk == ChunkStep \/ ChunkExit

SpecChunk == InitChunk /\ [][NextChunk]_vars

(* ------------------------------ claims --------------------------------- *)

\* C1: chunk_text terminates for every text and every configuration with
\* chunk_size > 0, also when chunk_overlap >= chunk_size: the step between
\* chunk starts is at least 1, so whenever the loop goes round again the
\* start offset has strictly increased.
C1_StartStrictlyIncreases ==
    [][(pc = "loop" /\ pc' = "loop") => start' > start]_vars

\* The chunks with the overlap removed: the first chunk whole, every later
\* chunk without its first `overlap` characters, concatenated.
RECURSIVE Reconstruct(_, _, _)
Reconstruct(cs, overlap, k) ==
    IF k > Len(cs) THEN <<>>
    ELSE (IF k = 1 THEN cs[k] ELSE SubSeq(cs[k], overlap + 1, Len(cs[k])))
         \o Reconstruct(cs, overlap, k + 1)

ValidChunkConfig == 0 <= chunk_overlap /\ chunk_overlap < chunk_size

\* C2: for a non-empty text and 0 <= O < L the returned chunks cover the text
\* with no gaps: the first chunk followed by every later chunk without its
\* first O characters is the text itself.
C2_ChunksReconstructText ==
    (pc = "done" /\ Len(text) > 0 /\ ValidChunkConfig)
        => Reconstruct(chunks, chunk_overlap, 1) = text

C2_Witness ==
    /\ pc = "done"
    /\ ValidChunkConfig
    /\ chunk_overlap > 0
    /\ Len(chunks) >= 3
    /\ Len(chunks[Len(chunks)]) < chunk_size
    /\ \E i, j \in 1..Len(text) : text[i] # text[j]

CeilDiv(a, b) == (a + b - 1) \div b

\* C3: for a non-empty text and 0 <= O < L chunk_text returns exactly
\* ceil((len(T)-O)/(L-O)) chunks when len(T) > L and exactly one chunk when
\* len(T) <= L.
C3_ChunkCount ==
    (pc = "done" /\ Len(text) > 0 /\ ValidChunkConfig)
        => Len(chunks) =
              IF Len(text) <= chunk_size THEN 1
              ELSE CeilDiv(Len(text) - chunk_overlap, chunk_size - chunk_overlap)

C3_Witness ==
    /\ pc = "done"
    /\ ValidChunkConfig
    /\ chunk_overlap > 0
    /\ Len(text) > chunk_size
    /\ Len(chunks) = 3
    /\ (Len(text) - chunk_overlap) % (chunk_size - chunk_overlap) # 0

(* ------------------- claims about the embedding cache ------------------ *)

\* a step that is a call of process_document_embeddings, from the upload page
EmbeddingsCall == call = NoCall /\ call'.op = "upload" /\ call'.processed

\* C4: a second call of process_document_embeddings for a document id returns
\* the record the earlier call returned (document_id, chunks, embeddings,
\* num_chunks, embedding_model), and is a cache hit: it does no chunking, does
\* not invoke the embedding model and does not rewrite the stored record.
C4_SecondCallIdentical ==
    [][(EmbeddingsCall /\ call'.doc_id \in DOMAIN returned /\ ~call'.raised)
          => /\ call'.ret[1] = returned[call'.doc_id]
             /\ call'.hit
             /\ ~call'.chunked /\ ~call'.encoded /\ ~call'.wrote
             /\ store' = store]_vars

C4_Witness ==
    /\ call.op = "upload" /\ call.processed
    /\ call.hit
    /\ call.ret[1] = returned[call.doc_id]
    /\ call.ret[1].num_chunks >= 2
    /\ call.ret[1].chunks =
          chunk_text(call.text, call.config.chunk_size, call.config.chunk_overlap)

\* C5: if an embedding record exists for the document id, the call returns
\* that stored record unchanged and leaves the embedding store unchanged,
\* whatever text is passed and whatever the configuration now is; the store
\* changes only when no record exists for the id, and then only at that id.
C5_ExistingRecordWins ==
    [][EmbeddingsCall
          => /\ call'.doc_id \in DOMAIN store
                => /\ ~call'.raised
                   /\ call'.ret[1] = PickleLoad(store[call'.doc_id])
                   /\ store' = store
                   /\ embeddings_dir' = embeddings_dir
             /\ store' # store
                => /\ call'.doc_id \notin DOMAIN store
                   /\ DOMAIN store' = DOMAIN store \cup {call'.doc_id}
                   /\ \A d \in DOMAIN store : store'[d] = store[d]]_vars

\* a hit whose text and configuration would have given another record
C5_Witness ==
    /\ call.op = "upload" /\ call.processed
    /\ call.existed
    /\ call.ret[1].embedding_model # call.config.model
    /\ call.ret[1].chunks #
          chunk_text(call.text, call.config.chunk_size, call.config.chunk_overlap)

(* ---------------------- claims about the search ------------------------ *)

Range(s) == {s[i] : i \in 1..Len(s)}

SearchReturned == call.op = "search" /\ ~call.raised

\* every (document, chunk) entry of the store whose similarity to the query
\* is above the threshold
AllMatches(q_model, query, threshold) ==
    LET q == Encode(q_model, query)
    IN  { [document_id |-> d, chunk_index |-> i - 1,
           chunk_text |-> PickleLoad(store[d]).chunks[i],
           similarity |-> CosSim(q, PickleLoad(store[d]).embeddings[i])] :
            <<d, i>> \in { <<d, i>> \in UNION {{d} \X (1..PickleLoad(store[d]).num_chunks) : d \in DOMAIN store} :
                     CosSim(q, PickleLoad(store[d]).embeddings[i]) > threshold } }

\* the similarities of all the store's chunks to the query
AllSimilarities(q_model, query) ==
    { CosSim(Encode(q_model, query), PickleLoad(store[d]).embeddings[i]) :
        <<d, i>> \in UNION {{d} \X (1..PickleLoad(store[d]).num_chunks) : d \in DOMAIN store} }

\* C6: every entry search_similar_chunks returns is a chunk of a stored
\* record with a similarity strictly greater than the configured threshold;
\* an entry whose similarity equals the threshold is never returned.
C6_AboveThreshold ==
    call.op = "search"
        => \A i \in 1..Len(call.similar_chunks) :
              LET e == call.similar_chunks[i]
              IN  /\ e.document_id \in DOMAIN store
                  /\ e.similarity =
                        CosSim(Encode(call.model, call.query),
                               PickleLoad(store[e.document_id]).embeddings[e.chunk_index + 1])
                  /\ e.similarity > call.threshold

\* a chunk with similarity equal to the threshold was left out, with room to spare
C6_Witness ==
    /\ call.op = "search"
    /\ call.threshold \in AllSimilarities(call.model, call.query)
    /\ call.similar_chunks # <<>>
    /\ Len(call.similar_chunks) < call.top_k

\* C7: search_similar_chunks(query, top_k) returns the first top_k of all the
\* above-threshold entries of every stored record sorted by similarity in
\* descending order: at most top_k entries, all of them above-threshold
\* entries and no entry twice, in non-increasing similarity order, as many as
\* there are up to top_k, and no entry left out has a similarity greater than
\* a returned one.
C7_TopKOfSorted ==
    call.op = "search"
        => LET res == call.similar_chunks
               all == AllMatches(call.model, call.query, call.threshold)
           IN  /\ Len(res) <= call.top_k
               /\ Range(res) \subseteq all
               /\ Cardinality(Range(res)) = Len(res)
               /\ Len(res) = Min(call.top_k, Cardinality(all))
               /\ \A i \in 1..Len(res) - 1 : res[i].similarity >= res[i + 1].similarity
               /\ \A e \in all \ Range(res) :
                     \A i \in 1..Len(res) : e.similarity <= res[i].similarity

\* more entries match than top_k, from two documents, with different similarities
C7_Witness ==
    /\ call.op = "search"
    /\ Cardinality(AllMatches(call.model, call.query, call.threshold)) > call.top_k
    /\ Len(call.similar_chunks) = call.top_k
    /\ Cardinality({e.document_id : e \in Range(call.similar_chunks)}) = 2
    /\ call.similar_chunks[1].similarity > call.similar_chunks[call.top_k].similarity
    /\ \E i, j \in 1..call.top_k :
          /\ i < j
          /\ call.similar_chunks[i].document_id = embeddings_dir[2]
          /\ call.similar_chunks[j].document_id = embeddings_dir[1]

\* C8: search_documents returns at most search.max_results entries and at
\* most one entry per document id, for every query, filter set and state of
\* the catalog and the embedding store.
C8_AtMostMaxResults ==
    SearchReturned
        => /\ Len(call.results) <= call.max_results
           /\ \A i, j \in 1..Len(call.results) :
                 i # j => call.results[i].document.id # call.results[j].document.id

\* two catalogued documents matched and passed the filters, one was returned
C8_Witness ==
    /\ SearchReturned
    /\ FiltersGiven(call.filters)
    /\ call.max_results = 1
    /\ Len(call.results) = 1
    /\ \E e \in Range(call.similar_chunks) :
          /\ e.document_id # call.results[1].document.id
          /\ e.document_id \in DOMAIN catalog
          /\ ~FilterRaises(JsonLoad(catalog[e.document_id]), call.filters)
          /\ FilterIncludes(JsonLoad(catalog[e.document_id]), call.filters)

SeqMax(s) == CHOOSE m \in Range(s) : \A x \in Range(s) : x <= m

\* C9: in every SearchResult returned by search_documents, best_similarity is
\* the maximum of the similarities of the entries of its matching_chunks.
C9_BestIsMax ==
    SearchReturned
        => \A i \in 1..Len(call.results) :
              LET r == call.results[i]
              IN  /\ r.matching_chunks # <<>>
                  /\ r.best_similarity =
                        SeqMax([k \in 1..Len(r.matching_chunks) |->
                                   r.matching_chunks[k].similarity])

C9_Witness ==
    /\ SearchReturned
    /\ \E i \in 1..Len(call.results) :
          LET r == call.results[i]
          IN  /\ Len(r.matching_chunks) >= 2
              /\ \E k \in 1..Len(r.matching_chunks) :
                    r.matching_chunks[k].similarity < r.best_similarity

\* the above-threshold entries of one document
DocMatches(doc_id) ==
    {e \in AllMatches(call.model, call.query, call.threshold) : e.document_id = doc_id}

\* C10: each SearchResult groups all matching chunks of its document:
\* matching_chunks holds every chunk of the document whose similarity to the
\* query exceeds the threshold, and total_matches is their number.
C10_AllMatchingChunks ==
    SearchReturned
        => \A i \in 1..Len(call.results) :
              LET r == call.results[i]
              IN  /\ Range(r.matching_chunks) = DocMatches(r.document.id)
                  /\ r.total_matches = Cardinality(DocMatches(r.document.id))

\* C10 as amended: matching_chunks holds, in order, the chunks of the document
\* among the 3 * max_results entries search_similar_chunks returned, and
\* total_matches is their number; these are all the matching chunks of the
\* document when the store has at most 3 * max_results above-threshold entries.
C10_GroupsReturnedChunks ==
    SearchReturned
        => \A i \in 1..Len(call.results) :
              LET r == call.results[i]
                  all == AllMatches(call.model, call.query, call.threshold)
              IN  /\ r.matching_chunks =
                        SelectSeq(call.similar_chunks,
                                  LAMBDA e : e.document_id = r.document.id)
                  /\ r.total_matches = Len(r.matching_chunks)
                  /\ Cardinality(all) <= 3 * call.max_results
                        => /\ Range(r.matching_chunks) = DocMatches(r.document.id)
                           /\ r.total_matches = Cardinality(DocMatches(r.document.id))

\* three chunks of one document match, and all three are grouped
C10_Witness ==
    /\ SearchReturned
    /\ \E i \in 1..Len(call.results) :
          /\ call.results[i].total_matches = 3
          /\ Cardinality(DocMatches(call.results[i].document.id)) = 3
          /\ call.results[i].best_similarity > call.results[i].matching_chunks[3].similarity

(* --------------------- claims about chunk offsets ---------------------- *)

\* C20: for 0 <= O < L the k-th chunk (k = 0, 1, ...) is the substring of the
\* text that starts at offset k*(L-O) and has min(L, len(text) - k*(L-O))
\* characters; every chunk but the last has exactly L characters and ends
\* before the end of the text, and the last chunk is the first one whose end
\* reaches the end of the text (abcdefghij with L=4, O=1: abcd, defg, ghij).
C20_ChunkOffsets ==
    (pc = "done" /\ Len(text) > 0 /\ ValidChunkConfig)
        => LET step == chunk_size - chunk_overlap
               n == Len(text)
           IN  /\ Len(chunks) > 0
               /\ \A k \in 0..(Len(chunks) - 1) :
                     /\ k * step < n
                     /\ chunks[k + 1] =
                           SubSeq(text, k * step + 1,
                                  k * step + Min(chunk_size, n - k * step))
                     /\ (k < Len(chunks) - 1)
                           => (Len(chunks[k + 1]) = chunk_size
                               /\ k * step + chunk_size < n)
                     /\ (k = Len(chunks) - 1) => k * step + chunk_size >= n

C20_Witness ==
    /\ pc = "done"
    /\ text = ExampleText
    /\ chunk_size = 4
    /\ chunk_overlap = 1
    /\ chunks = << <<"a", "b", "c", "d">>, <<"d", "e", "f", "g">>,
                   <<"g", "h", "i", "j">> >>

(* ------------------ claims about the stored analysis ------------------- *)

\* a value that is a string: neither JSON null nor a missing key
IsString(v) == v \notin {NullValue, Missing}

\* C18: whatever the analyzer call does (it raises, replies with text that is
\* not JSON, or replies with JSON of any shape), every record process_document
\* has stored has a string for analysis.regulator and analysis.document_type,
\* and a search with filters, the embedding model answering, does not raise.
C18_StoredAnalysisSafe ==
    /\ \A d \in DOMAIN catalog :
          /\ IsString(JsonLoad(catalog[d]).analysis.regulator)
          /\ IsString(JsonLoad(catalog[d]).analysis.document_type)
    /\ (call.op = "search" /\ call.model_ok) => ~call.raised

(* ------------------------ claims about filters ------------------------- *)

\* the ids of the documents of a result list
ResultIds(results) == {results[i].document.id : i \in 1..Len(results)}

\* the last search, made again without the regulator filter
WithoutRegulatorFilter ==
    search_documents(catalog, store, embeddings_dir, call.query,
                     [call.filters EXCEPT !.regulator = NoFilter],
                     call.model, call.max_results, call.threshold)

\* C11: for a document D that search_documents would return without the
\* regulator filter, a regulator filter value equal to D's analysis.regulator
\* ignoring case retains D (the search returns it), and every other filter
\* value excludes D.
C11_RegulatorFilter ==
    (call.op = "search" /\ call.filters.regulator # NoFilter
       /\ ~WithoutRegulatorFilter.raised)
        => \A i \in 1..Len(WithoutRegulatorFilter.results) :
              LET D == WithoutRegulatorFilter.results[i].document
              IN  IF /\ IsString(D.analysis.regulator)
                     /\ Lower(D.analysis.regulator) = Lower(call.filters.regulator)
                  THEN ~call.raised /\ D.id \in ResultIds(call.results)
                  ELSE D.id \notin ResultIds(call.results)

\* the last search, made again without the date filter
WithoutDateFilter ==
    search_documents(catalog, store, embeddings_dir, call.query,
                     [call.filters EXCEPT !.date_from = 0, !.date_to = 0],
                     call.model, call.max_results, call.threshold)

\* d lies in the range of the bounds given, both inclusive
InDateRange(d, filters) ==
    /\ filters.date_from # 0 => filters.date_from <= d
    /\ filters.date_to # 0 => d <= filters.date_to

DateFilterGiven == call.filters.date_from # 0 \/ call.filters.date_to # 0

C13_EmptyCatalog ==
    (call.op = "search" /\ call.model_ok /\ DOMAIN catalog = {})
        => ~call.raised /\ call.results = <<>>

\* the catalog is empty, the store is not and its chunks match; filters given
C13_Witness ==
    /\ call.op = "search"
    /\ DOMAIN catalog = {}
    /\ call.similar_chunks # <<>>
    /\ FiltersGiven(call.filters)
    /\ call.results = <<>>
    /\ ~call.raised

\* the stored records a search with model q_model cannot load or cannot score
FailingRecords(q_model) ==
    { d \in DOMAIN store :
        \/ store[d] = Truncated
        \/ /\ store[d] # Truncated
           /\ ModelDim(PickleLoad(store[d]).embedding_model) # ModelDim(q_model) }

\* every above-threshold entry of the records that load and can be scored
GoodMatches(q_model, query, threshold) ==
    LET q == Encode(q_model, query)
        good == DOMAIN store \ FailingRecords(q_model)
    IN  { [document_id |-> di[1], chunk_index |-> di[2] - 1,
           chunk_text |-> PickleLoad(store[di[1]]).chunks[di[2]],
           similarity |-> CosSim(q, PickleLoad(store[di[1]]).embeddings[di[2]])] :
            di \in { x \in UNION {{d} \X (1..PickleLoad(store[d]).num_chunks) : d \in good} :
                     CosSim(q, PickleLoad(store[x[1]]).embeddings[x[2]]) > threshold } }

\* C16: in search_similar_chunks a stored record that fails to load or to be
\* scored contributes no entries at all, and the search still returns the
\* entries of every other stored record: the first top_k, by similarity, of
\* all their above-threshold entries.
C16_SoftFailure ==
    (call.op = "search" /\ call.model_ok)
        => LET res == call.similar_chunks
               good == GoodMatches(call.model, call.query, call.threshold)
           IN  /\ \A i \in 1..Len(res) :
                     res[i].document_id \notin FailingRecords(call.model)
               /\ Range(res) \subseteq good
               /\ Len(res) = Min(call.top_k, Cardinality(good))
               /\ \A e \in good \ Range(res) :
                     \A i \in 1..Len(res) : e.similarity <= res[i].similarity

\* a record cut short and a record of another dimension are listed before a
\* record that is scored, whose entries are returned
C16_Witness ==
    /\ call.op = "search"
    /\ call.model_ok
    /\ Len(embeddings_dir) = 3
    /\ store[embeddings_dir[3]] # Truncated
    /\ embeddings_dir[3] \notin FailingRecords(call.model)
    /\ \E i, j \in 1..2 :
          /\ store[embeddings_dir[i]] = Truncated
          /\ store[embeddings_dir[j]] # Truncated
          /\ embeddings_dir[j] \in FailingRecords(call.model)
    /\ call.similar_chunks # <<>>

\* C17: a failure of the embedding model is a hard failure.  A search during
\* which the model fails raises and returns no list, also when the store is
\* empty; a call of process_document_embeddings that misses the cache and
\* during which the model fails raises, returns nothing, writes no record
\* and leaves the store as it was.
C17_ModelFailureIsHard ==
    [][ /\ (call'.op = "search" /\ ~call'.model_ok)
            => (call'.raised /\ call'.results = <<>> /\ call'.similar_chunks = <<>>)
        /\ (call'.op = "upload" /\ call = NoCall /\ call'.processed /\ call'.model_failed)
            => /\ call'.raised
               /\ call'.ret = <<>>
               /\ ~call'.wrote
               /\ store' = store
               /\ embeddings_dir' = embeddings_dir ]_vars

\* an upload missed the cache and the model failed, with records in the store
C17_Witness ==
    /\ call.op = "upload"
    /\ call.processed
    /\ call.model_failed
    /\ call.raised
    /\ call.doc_id \notin DOMAIN store
    /\ DOMAIN store # {}

(* ----------------------- claims about statistics ----------------------- *)

CatalogDocs == {JsonLoad(catalog[d]) : d \in DOMAIN catalog}

\* a list of strings in ascending order without duplicates
Ascending(list) ==
    \A i, j \in 1..Len(list) : i < j => StrRank(list[i]) < StrRank(list[j])

\* C14: get_system_stats returns total_documents equal to the number of
\* catalog records, and regulators (likewise document_types) equal to the
\* ascending list, without duplicates, of the distinct non-null values found
\* in the catalog (FDA, FDA, OSHA over three documents: [FDA, OSHA], total 3).
C14_StatsCounts ==
    call.op = "stats"
        => /\ call.stats.total_documents = Cardinality(DOMAIN catalog)
           /\ Ascending(call.stats.regulators)
           /\ Range(call.stats.regulators) =
                 {doc.analysis.regulator : doc \in CatalogDocs} \ {NullValue, Missing}
           /\ Ascending(call.stats.document_types)
           /\ Range(call.stats.document_types) =
                 {doc.analysis.document_type : doc \in CatalogDocs} \ {NullValue, Missing}

\* a record that parses but lacks analysis.regulator or analysis.document_type
Corrupt(doc) ==
    doc.analysis.regulator = Missing \/ doc.analysis.document_type = Missing

\* C15: in get_system_stats a corrupt catalog record is skipped and not
\* counted: total_documents, regulators, document_types and last_update are
\* those of the records that are not corrupt, all of which are processed.
C15_CorruptNotCounted ==
    call.op = "stats"
        => LET valid == {doc \in CatalogDocs : ~Corrupt(doc)}
           IN  /\ call.stats.total_documents = Cardinality(valid)
               /\ Range(call.stats.regulators) =
                     {doc.analysis.regulator : doc \in valid} \ {NullValue}
               /\ Range(call.stats.document_types) =
                     {doc.analysis.document_type : doc \in valid} \ {NullValue}
               /\ call.stats.last_update # <<>>
                     => \E doc \in valid :
                           call.stats.last_update[1] = FromIsoFormat(doc.upload_date)
               /\ \A doc \in valid :
                     /\ call.stats.last_update # <<>>
                     /\ ~Later(FromIsoFormat(doc.upload_date), call.stats.last_update[1])

(* ------------------------ claims about ordering ------------------------ *)

\* C21: the list search_documents returns is in non-increasing order of
\* best_similarity, and in each SearchResult matching_chunks is in
\* non-increasing order of similarity, so that its first element, the chunk
\* generate_ai_summary excerpts, is the best-matching chunk of the document:
\* it has the best_similarity, and no above-threshold chunk of the document
\* in the store has a greater similarity.
C21_ResultsOrdered ==
    SearchReturned
        => /\ \A i \in 1..Len(call.results) - 1 :
                 call.results[i].best_similarity >= call.results[i + 1].best_similarity
           /\ \A i \in 1..Len(call.results) :
                 LET r == call.results[i]
                 IN  /\ r.matching_chunks # <<>>
                     /\ \A k \in 1..Len(r.matching_chunks) - 1 :
                           r.matching_chunks[k].similarity
                              >= r.matching_chunks[k + 1].similarity
                     /\ r.matching_chunks[1].similarity = r.best_similarity
                     /\ \A e \in DocMatches(r.document.id) :
                           e.similarity <= r.matching_chunks[1].similarity

\* two results, one of them with a best chunk that is not the first chunk of
\* its document
C21_Witness ==
    /\ SearchReturned
    /\ Len(call.results) = 2
    /\ \E i \in 1..2 :
          LET r == call.results[i]
          IN  /\ Len(r.matching_chunks) >= 2
              /\ r.matching_chunks[1].chunk_index > r.matching_chunks[2].chunk_index
              /\ r.matching_chunks[1].similarity > r.matching_chunks[2].similarity

(* ------------------ claims about missing catalog records --------------- *)

\* the ids without a loadable catalog record
Uncatalogued(doc_id) == doc_id \notin DOMAIN catalog \/ catalog[doc_id] = TruncatedJson

\* C22: a matched chunk whose document id has no loadable catalog record is
\* dropped silently: search_documents returns no SearchResult for that id,
\* however many of its chunks matched, raises no error, and still returns the
\* results of the other documents: every catalogued document with a matched
\* chunk that passes the filters is returned, up to max_results.
C22_UncataloguedDropped ==
    (call.op = "search" /\ call.model_ok)
        => /\ ~call.raised
           /\ \A i \in 1..Len(call.results) : ~Uncatalogued(call.results[i].doc_id)
           /\ \A k \in 1..Len(call.similar_chunks) :
                 LET d == call.similar_chunks[k].document_id
                 IN  (~Uncatalogued(d) /\ FilterIncludes(JsonLoad(catalog[d]), call.filters))
                        => \/ d \in ResultIds(call.results)
                           \/ Len(call.results) = call.max_results

\* two chunks of a document whose record was removed and a chunk of a
\* document whose record is cut short matched, ahead of a chunk of a
\* catalogued document, which is returned
C22_Witness ==
    /\ call.op = "search"
    /\ call.model_ok
    /\ call.results # <<>>
    /\ \E i, j, k, l \in 1..Len(call.similar_chunks) :
          /\ i < j /\ j < l /\ k < l
          /\ call.similar_chunks[i].document_id = call.similar_chunks[j].document_id
          /\ call.similar_chunks[i].document_id \notin DOMAIN catalog
          /\ call.similar_chunks[k].document_id \in DOMAIN catalog
          /\ catalog[call.similar_chunks[k].document_id] = TruncatedJson
          /\ call.similar_chunks[l].document_id \in ResultIds(call.results)

(* --------------------- claims about the catalog ------------------------ *)

\* C24: a Document record is created once and immutable thereafter: whatever
\* process_document calls follow, the record stored under an id stays the
\* one the first ingestion of that id wrote (same text, analysis and
\* upload_date); no step removes or changes a catalog record.
C24_RecordImmutable ==
    [][\A d \in DOMAIN catalog :
          d \in DOMAIN catalog' /\ catalog'[d] = catalog[d]]_vars

\* a step that is an ingestion of id d by the upload page
Ingests(d) == call = NoCall /\ call'.op = "upload" /\ call'.processed /\ call'.doc_id = d

\* C24 (amended): there is one catalog record per id, and it is the record
\* of the last ingestion that produced the id: every process_document call
\* that extracts a text writes the record of its id anew, with its own
\* text, and no other step changes or removes a catalog record.
C24_LastIngestionWins ==
    [][ /\ \A d \in DOMAIN catalog :
              /\ d \in DOMAIN catalog'
              /\ catalog'[d] # catalog[d] => Ingests(d)
        /\ \A d \in DOMAIN catalog' :
              Ingests(d) => /\ JsonLoad(catalog'[d]).id = d
                            /\ JsonLoad(catalog'[d]).text = call'.text
                            /\ JsonLoad(catalog'[d]).text_length = Len(call'.text) ]_vars

\* an ingestion found the embedding record of an earlier ingestion of its id
\* with another text, and the catalog holds the text of this ingestion
C24_Witness ==
    /\ call.op = "upload"
    /\ call.processed
    /\ call.hit
    /\ JsonLoad(catalog[call.doc_id]).text = call.text
    /\ \A ec \in EmbedConfigs :
          call.ret[1].chunks # chunk_text(call.text, ec.chunk_size, ec.chunk_overlap)

\* C25: after any sequence of ingestions through the upload page, also ones
\* whose text extraction gives no text or during which the embedding model
\* fails, every document id with an embedding record has a catalog record;
\* an upload whose extracted text is empty writes neither record.
C25_EmbeddedImpliesCatalogued ==
    [][ /\ DOMAIN store' \subseteq DOMAIN catalog'
        /\ (call = NoCall /\ call'.op = "upload" /\ ~call'.processed)
             => (catalog' = catalog /\ store' = store
                 /\ embeddings_dir' = embeddings_dir) ]_vars

\* an upload without text, after an upload during which the model failed
\* (catalogued, not embedded) and one that was embedded
C25_Witness ==
    /\ call.op = "upload"
    /\ ~call.processed
    /\ DOMAIN store # {}
    /\ DOMAIN catalog \ DOMAIN store # {}

(* ---------------- claims about the embedding records ------------------- *)

\* record rec holds the chunks of text t under configuration ec
DerivedFrom(rec, t, ec) ==
    rec.chunks = chunk_text(t, ec.chunk_size, ec.chunk_overlap)

\* num_chunks, chunks and embeddings agree: one vector per chunk, in order
Parallel(rec) ==
    /\ rec.num_chunks = Len(rec.chunks)
    /\ Len(rec.embeddings) = Len(rec.chunks)
    /\ \A i \in 1..Len(rec.chunks) :
          rec.embeddings[i] = Encode(rec.embedding_model, rec.chunks[i])

\* C26: with the chunk configuration held fixed, after any sequence of
\* ingestions the embedding record of every document id holds the chunks of
\* the text currently stored in the catalog record of the same id, with
\* num_chunks the number of chunks and one embedding per chunk in order.
C26_DerivedFromCataloguedText ==
    \A d \in DOMAIN store :
       /\ d \in DOMAIN catalog
       /\ DerivedFrom(PickleLoad(store[d]), JsonLoad(catalog[d]).text, FilterConfig)
       /\ Parallel(PickleLoad(store[d]))

\* C26 (amended): with the chunk configuration held fixed, the embedding
\* record of an id holds the chunks of the text that was catalogued when the
\* record was created, with num_chunks the number of chunks and one
\* embedding per chunk in order; the record is never rewritten, also when a
\* later ingestion of the id replaces the catalogued text.
C26_DerivedFromTextAtCreation ==
    [][ /\ \A d \in DOMAIN store : d \in DOMAIN store' /\ store'[d] = store[d]
        /\ \A d \in DOMAIN store' \ DOMAIN store :
              /\ Ingests(d)
              /\ call'.wrote
              /\ d \in DOMAIN catalog'
              /\ JsonLoad(catalog'[d]).text = call'.text
              /\ DerivedFrom(PickleLoad(store'[d]), call'.text, FilterConfig)
              /\ Parallel(PickleLoad(store'[d])) ]_vars

\* an ingestion replaced the catalogued text of an id whose embedding record
\* holds the chunks of the earlier text
C26_Witness ==
    /\ call.op = "upload"
    /\ call.processed
    /\ call.hit
    /\ JsonLoad(catalog[call.doc_id]).text = call.text
    /\ Parallel(PickleLoad(store[call.doc_id]))
    /\ ~DerivedFrom(PickleLoad(store[call.doc_id]), call.text, FilterConfig)

(* ---------------------- claims about concurrency ----------------------- *)

\* a whole record of the document of the race: its chunks with their vectors
CompleteRecord(rec) ==
    /\ rec.document_id = call.doc.id
    /\ Parallel(rec)
    /\ \E ec \in EmbedConfigs : DerivedFrom(rec, call.doc.text, ec)

\* C23: when two callers run process_document_embeddings concurrently for
\* one document id, with a search_similar_chunks in between, no caller ever
\* reads a partially written embedding record (no load fails and the search
\* finds no partial file), each ingesting caller that has returned has
\* returned a complete record, and once both have ended the store holds one
\* complete record for the id.
C23_RaceCannotCorrupt ==
    /\ \A c \in Callers :
          /\ call.pc[c] # "failed"
          /\ call.pc[c] = "done"
                => (call.ret[c] # <<>> /\ CompleteRecord(call.ret[c][1]))
    /\ call.search_read # "partial"
    /\ (\A c \in Callers : call.pc[c] \in {"done", "failed"})
          => /\ DOMAIN store = {call.doc.id}
             /\ embeddings_dir = <<call.doc.id>>
             /\ Loadable(store[call.doc.id])
             /\ CompleteRecord(PickleLoad(store[call.doc.id]))

====
